---- MODULE Spec2Model ----
(***************************************************************************)
(* Model of the moderation pipeline and the pending-post lifecycle of      *)
(* server/controllers/post.controller.js.                                  *)
(*                                                                         *)
(* Every request handler is an async function: it runs atomically from one *)
(* await to the next, and other handlers run in between.  One action of    *)
(* the model is one such segment, taken at the moment the awaited store    *)
(* operation (or external call) takes effect.                              *)
(***************************************************************************)
EXTENDS Integers, Sequences, FiniteSets, TLC

\* ------------------------------------------------------------- bounds
\* Number of lifecycle requests (confirm / reject / expire) in one run.
MaxReqs == 2
\* Number of pending records the store may hold initially.
NumPending == 2

ReqIds == 1..MaxReqs
PendingIds == 1..NumPending

\* JavaScript's null, as a field value, as a missing document, as a missing user.
Null == "null"
NoDoc == [_id |-> 0]
NoUser == [_id |-> "null"]

\* ------------------------------------------------------------- users
\* The User collection: the documents User.findById can return.
UserRoles == [u1 |-> "general", u2 |-> "moderator", u3 |-> "admin"]

\* req.userId as set by the authentication middleware; "u0" has no document.
ActorIds == {"u0", "u1", "u2"}

\* The users who submit, confirm and reject posts.
AuthorIds == {"u1", "u2"}

\* User.findById(id)
FindUserById(id) ==
    IF id \in DOMAIN UserRoles THEN [_id |-> id, role |-> UserRoles[id]] ELSE NoUser

\* ------------------------------------------------------------- time
\* new Date() at the time of the expiry run, and one hour, in half hours.
Now == 4
Hour == 2

VARIABLES
    pending,    \* the PendingPost collection: a set of documents
    posts,      \* the Post collection: a set of documents
    reqs,       \* per lifecycle request: operation, position, locals, response
    comments,   \* the Comment collection: a set of documents
    creqs,      \* per createPost / addComment request: the same
    disk,       \* uploaded files present in assets/userFiles, by request
    unlinkQueue,\* fs.unlink calls issued whose callback has not run yet
    unlinkLog,  \* fs.unlink failures written to console.error
    env,        \* process.env: USE_PERSPECTIVE_API, PERSPECTIVE_API_KEY
    rules       \* moderationRules.rules, loaded once at start

lifecycleVars == <<pending, reqs>>
gateVars == <<comments, creqs, disk, unlinkQueue, unlinkLog, env, rules>>
vars == <<pending, posts, reqs, comments, creqs, disk, unlinkQueue, unlinkLog, env, rules>>

\* ------------------------------------------------------------- documents
\* Free text: a sequence of characters.  Document i's content is i letters.
TextOf(i) == [k \in 1..i |-> "t"]

\* The post that existed before any request of the run.
SeedPost ==
    [_id |-> <<"post", 0>>, user |-> "u1", community |-> "g1",
     content |-> <<"s">>, fileUrl |-> Null, fileType |-> Null,
     comments |-> {}]

\* The users who submitted the pending documents, alternating.
OwnerOf(i) == IF i % 2 = 1 THEN "u1" ELSE "u2"

\* What varies between the pending documents the store can hold: created
\* at the expiry cutoff or just now; a status other than "pending" is what
\* the status filter of the queries is there for.
PendingShapes ==
    { [status |-> "pending", createdAt |-> Now - Hour],
      [status |-> "pending", createdAt |-> Now],
      [status |-> "archived", createdAt |-> Now] }

\* Pending document i.  confirmationToken is unique per document, so
\* document i carries token i.
PendingDoc(i, sh) ==
    [_id |-> i, confirmationToken |-> i, user |-> OwnerOf(i), community |-> "g1",
     content |-> TextOf(i),
     fileUrl |-> IF i = 1 THEN "url1" ELSE Null,
     fileType |-> IF i = 1 THEN "image/png" ELSE Null,
     status |-> sh.status, createdAt |-> sh.createdAt]

PendingStores ==
    { { PendingDoc(i, f[i]) : i \in PendingIds } : f \in [PendingIds -> PendingShapes] }

IdleReq ==
    [op |-> "none", pc |-> "idle", userId |-> Null, token |-> 0,
     found |-> NoDoc, deleted |-> NoDoc, swept |-> {}, resp |-> 0,
     crashed |-> FALSE,
     commentId |-> <<>>, allComments |-> <<>>, idx |-> 0, deletedCount |-> 0]

\* Handler r is suspended at an await, with the server process alive.
InFlight(r) == reqs[r].pc \notin {"idle", "done"} /\ ~reqs[r].crashed

\* Handler r resumes from the await named pc.
At(r, pc) == reqs[r].pc = pc /\ ~reqs[r].crashed

\* Request r arrives: the requests of a run are numbered in arrival order.
Arrives(r) ==
    /\ reqs[r].pc = "idle"
    /\ \A q \in 1..(r - 1) : reqs[q].pc # "idle"

\* new Post({...}) of a handler: the document a save() inserts.
NewPost(r, user, community, content, fileUrl, fileType) ==
    [_id |-> <<"post", r>>, user |-> user, community |-> community,
     content |-> content, fileUrl |-> fileUrl, fileType |-> fileType,
     comments |-> {}]

\* ------------------------------------------------------------- queries
\* The owner query without its user condition.
MatchesOwnerQuery_AnyUser(p, t, u) ==
    /\ p.confirmationToken = t
    /\ p.status = "pending"

\* PendingPost.findOne({confirmationToken: {$eq: t}, status: "pending", user: u})
MatchesOwnerQuery(p, t, u) ==
    /\ p.confirmationToken = t
    /\ p.status = "pending"
    /\ p.user = u

FindOnePending(t, u) ==
    IF \E p \in pending : MatchesOwnerQuery(p, t, u)
    THEN CHOOSE p \in pending : MatchesOwnerQuery(p, t, u)
    ELSE NoDoc

\* PendingPost.findOneAndDelete({confirmationToken: {$eq: t}}): the filter.
MatchesTokenQuery(p, t) == p.confirmationToken = t

\* ------------------------------------------------------------- confirmPost
\* Lines 187-196: the owner-matched read; 404 when nothing matches.
ConfirmFindOne(r, t, u) ==
    /\ Arrives(r)
    /\ LET doc == FindOnePending(t, u) IN
       reqs' = [reqs EXCEPT ![r] =
                 IF doc = NoDoc
                 THEN [@ EXCEPT !.op = "confirm", !.pc = "done", !.userId = u,
                                !.token = t, !.resp = 404]
                 ELSE [@ EXCEPT !.op = "confirm", !.pc = "c_delete", !.userId = u,
                                !.token = t, !.found = doc]]
    /\ UNCHANGED <<pending, posts>>
    /\ UNCHANGED gateVars

\* The delete by token with a filter that matches no document.
ConfirmFindOneAndDelete_NoMatch(r) ==
    /\ At(r, "c_delete")
    /\ reqs' = [reqs EXCEPT ![r].pc = "c_save"]
    /\ UNCHANGED <<pending, posts>>
    /\ UNCHANGED gateVars

\* Lines 207-209: the delete by token; its result is not looked at.
ConfirmFindOneAndDelete(r) ==
    /\ At(r, "c_delete")
    /\ LET hit == { p \in pending : MatchesTokenQuery(p, reqs[r].token) } IN
       /\ pending' = pending \ hit
       /\ reqs' = [reqs EXCEPT ![r].pc = "c_save",
                               ![r].deleted = IF hit = {} THEN NoDoc
                                              ELSE CHOOSE p \in hit : TRUE]
    /\ UNCHANGED posts
    /\ UNCHANGED gateVars

\* The save preceded by a content check as in createPost: content holding
\* the literal rule "ab", in any letter case, is refused with 403 and no
\* post is inserted.
ConfirmSave_Gated(r) ==
    /\ At(r, "c_save")
    /\ LET d == reqs[r].found IN
       IF \E k \in 1..(Len(d.content) - 1) :
             d.content[k] \in {"a", "A"} /\ d.content[k + 1] \in {"b", "B"}
       THEN /\ reqs' = [reqs EXCEPT ![r].pc = "done", ![r].resp = 403]
            /\ UNCHANGED posts
       ELSE /\ posts' = posts \cup
                     {NewPost(r, d.user, d.community, d.content, d.fileUrl, d.fileType)}
            /\ reqs' = [reqs EXCEPT ![r].pc = "c_respond"]
    /\ UNCHANGED pending
    /\ UNCHANGED gateVars

\* Lines 198-205, 210: the live post built from the document read, saved.
ConfirmSave(r) ==
    /\ At(r, "c_save")
    /\ LET d == reqs[r].found IN
       posts' = posts \cup
                {NewPost(r, d.user, d.community, d.content, d.fileUrl, d.fileType)}
    /\ reqs' = [reqs EXCEPT ![r].pc = "c_respond"]
    /\ UNCHANGED pending
    /\ UNCHANGED gateVars

\* Lines 213-220: the saved post is read back and sent.
ConfirmRespond(r) ==
    /\ At(r, "c_respond")
    /\ reqs' = [reqs EXCEPT ![r].pc = "done",
                            ![r].resp = IF \E p \in posts : p._id = <<"post", r>>
                                        THEN 200 ELSE 500]
    /\ UNCHANGED <<pending, posts>>
    /\ UNCHANGED gateVars

\* ------------------------------------------------------------- rejectPost
\* Lines 230-240: the owner-matched read; 404 when nothing matches.
RejectFindOne(r, t, u) ==
    /\ Arrives(r)
    /\ LET doc == FindOnePending(t, u) IN
       reqs' = [reqs EXCEPT ![r] =
                 IF doc = NoDoc
                 THEN [@ EXCEPT !.op = "reject", !.pc = "done", !.userId = u,
                                !.token = t, !.resp = 404]
                 ELSE [@ EXCEPT !.op = "reject", !.pc = "r_remove", !.userId = u,
                                !.token = t, !.found = doc]]
    /\ UNCHANGED <<pending, posts>>
    /\ UNCHANGED gateVars

\* remove() called on the model instead of the document: every pending
\* document goes.
RejectRemove_WholeCollection(r) ==
    /\ At(r, "r_remove")
    /\ pending' = {}
    /\ reqs' = [reqs EXCEPT ![r].pc = "done", ![r].resp = 201,
                            ![r].deleted = reqs[r].found]
    /\ UNCHANGED posts
    /\ UNCHANGED gateVars

\* Lines 242-243: pendingPost.remove() deletes the document read, by _id.
RejectRemove(r) ==
    /\ At(r, "r_remove")
    /\ LET hit == { p \in pending : p._id = reqs[r].found._id } IN
       /\ pending' = pending \ hit
       /\ reqs' = [reqs EXCEPT ![r].pc = "done", ![r].resp = 201,
                               ![r].deleted = IF hit = {} THEN NoDoc
                                              ELSE CHOOSE p \in hit : TRUE]
    /\ UNCHANGED posts
    /\ UNCHANGED gateVars

\* ------------------------------------------------------------- clearPendingPosts
\* Lines 253-256: the role check.  A missing user document makes user.role
\* throw, which the catch turns into 500.
ClearFindUser(r, u) ==
    /\ Arrives(r)
    /\ LET user == FindUserById(u) IN
       reqs' = [reqs EXCEPT ![r] =
                 IF user = NoUser
                 THEN [@ EXCEPT !.op = "expire", !.pc = "done", !.userId = u,
                                !.resp = 500]
                 ELSE IF user.role # "moderator"
                 THEN [@ EXCEPT !.op = "expire", !.pc = "done", !.userId = u,
                                !.resp = 401]
                 ELSE [@ EXCEPT !.op = "expire", !.pc = "x_delete", !.userId = u]]
    /\ UNCHANGED <<pending, posts>>
    /\ UNCHANGED gateVars

\* Lines 258-259: the cutoff, one hour before now.
Cutoff == Now - Hour

\* The filter with $lt in place of $lte.
Expired_StrictlyBefore(p) == p.createdAt < Cutoff

\* Line 261: deleteMany({createdAt: {$lte: date}}): the filter.
Expired(p) == p.createdAt <= Cutoff

\* deleteOne in place of deleteMany: one matching document goes per run.
ClearDeleteMany_DeleteOne(r) ==
    /\ At(r, "x_delete")
    /\ LET hit == { p \in pending : Expired(p) }
           gone == IF hit = {} THEN {}
                   ELSE { CHOOSE p \in hit : \A q \in hit : p._id <= q._id }
       IN /\ pending' = pending \ gone
          /\ reqs' = [reqs EXCEPT ![r].pc = "done", ![r].resp = 200,
                                  ![r].swept = { p._id : p \in gone }]
    /\ UNCHANGED posts
    /\ UNCHANGED gateVars

\* Lines 261-263.
ClearDeleteMany(r) ==
    /\ At(r, "x_delete")
    /\ pending' = { p \in pending : ~Expired(p) }
    /\ reqs' = [reqs EXCEPT ![r].pc = "done", ![r].resp = 200,
                            ![r].swept = { p._id : p \in { q \in pending : Expired(q) } }]
    /\ UNCHANGED posts
    /\ UNCHANGED gateVars

\* ------------------------------------------------------------- crash
\* The server process dies: every handler in flight stops where it is, the
\* collections keep what was written.
Crash ==
    /\ \E r \in ReqIds : InFlight(r)
    /\ reqs' = [r \in ReqIds |->
                 IF InFlight(r) THEN [reqs[r] EXCEPT !.crashed = TRUE] ELSE reqs[r]]
    /\ UNCHANGED <<pending, posts>>
    /\ UNCHANGED gateVars

\* ------------------------------------------------------------- matchesRuleBased
\* Text and rules are sequences of characters.  Letters come in two cases;
\* "/" delimits a pattern rule, "." and "(" are the pattern syntax modelled:
\* "." matches any character, an unclosed "(" makes new RegExp throw.
Lower(c) ==
    CASE c = "A" -> "a"
      [] c = "B" -> "b"
      [] c = "X" -> "x"
      [] OTHER -> c

\* The string left in the case it came in.
ToLowerCase_Identity(str) == str

\* String.prototype.toLowerCase
ToLowerCase(str) == [k \in 1..Len(str) |-> Lower(str[k])]

\* String.prototype.includes
Includes(hay, needle) ==
    \E i \in 0..(Len(hay) - Len(needle)) :
        SubSeq(hay, i + 1, i + Len(needle)) = needle

\* Line 39: r.startsWith("/") && r.endsWith("/")
IsRegexShaped(r) == Len(r) >= 1 /\ r[1] = "/" /\ r[Len(r)] = "/"

\* Line 40: r.slice(1, -1)
Slice1(r) == IF Len(r) <= 2 THEN <<>> ELSE SubSeq(r, 2, Len(r) - 1)

\* Line 40: new RegExp(body, "i") throws a SyntaxError.
RegExpThrows(body) == \E k \in 1..Len(body) : body[k] = "("

\* Line 41: re.test(text), unanchored and case-insensitive.
RegExpTest(body, text) ==
    \E i \in 0..(Len(text) - Len(body)) :
        \A k \in 1..Len(body) :
            body[k] = "." \/ Lower(body[k]) = Lower(text[i + k])

\* Lines 37-49: the scan; a rule whose pattern throws is skipped.
\* The scan with the try/catch around the whole loop: a pattern that does
\* not compile ends the scan with no match.
RECURSIVE ScanRules_AbortOnThrow(_, _)
ScanRules_AbortOnThrow(rs, text) ==
    IF rs = <<>> THEN FALSE
    ELSE LET r == Head(rs) IN
         IF IsRegexShaped(r)
         THEN IF RegExpThrows(Slice1(r)) THEN FALSE
              ELSE IF RegExpTest(Slice1(r), text) THEN TRUE
              ELSE ScanRules_AbortOnThrow(Tail(rs), text)
         ELSE IF Includes(ToLowerCase(text), ToLowerCase(r)) THEN TRUE
              ELSE ScanRules_AbortOnThrow(Tail(rs), text)

RECURSIVE ScanRules(_, _)
ScanRules(rs, text) ==
    IF rs = <<>> THEN FALSE
    ELSE LET r == Head(rs) IN
         IF IsRegexShaped(r)
         THEN IF RegExpThrows(Slice1(r)) THEN ScanRules(Tail(rs), text)
              ELSE IF RegExpTest(Slice1(r), text) THEN TRUE
              ELSE ScanRules(Tail(rs), text)
         ELSE IF Includes(ToLowerCase(text), ToLowerCase(r)) THEN TRUE
              ELSE ScanRules(Tail(rs), text)

\* Lines 32-50.
matchesRuleBased(text) ==
    IF text = <<>> THEN FALSE ELSE ScanRules(rules, text)

\* ------------------------------------------------------------- aiModerationCheck
\* Scores and thresholds in thousandths.
Thresholds ==
    [TOXICITY |-> 850, INSULT |-> 850, THREAT |-> 700,
     IDENTITY_ATTACK |-> 800, SEXUALLY_EXPLICIT |-> 900]

DefaultThreshold == 900

\* The fallback threshold applied to every attribute.
ThresholdOf_DefaultOnly(attr) == DefaultThreshold

\* Line 96: thresholds[attr] || 0.9
ThresholdOf(attr) ==
    IF attr \in DOMAIN Thresholds THEN Thresholds[attr] ELSE DefaultThreshold

\* The enable flag alone, whether or not a key is configured.
ScoringEnabled_FlagOnly == env.USE_PERSPECTIVE_API = "true"

\* Line 60: the two settings that enable the external call.
ScoringEnabled ==
    env.USE_PERSPECTIVE_API = "true" /\ env.PERSPECTIVE_API_KEY # ""

\* Whether aiModerationCheck(text) reaches fetch (lines 58-73).
ScorerCalled(text) == text # <<>> /\ ScoringEnabled

\* What the awaited fetch and resp.json() can come back with.  An attribute
\* score is [attr, summary, value]: summary FALSE is an entry without a
\* summaryScore.  A body is the parsed JSON: null, or an object with or
\* without attributeScores.
NoBody == [shape |-> "none", hasScores |-> FALSE, scores |-> <<>>]
NoOutcome == [kind |-> "none", body |-> NoBody]

JsonBody(shape, hasScores, scores) ==
    [shape |-> shape, hasScores |-> hasScores, scores |-> scores]

Score(attr, value) == [attr |-> attr, summary |-> TRUE, value |-> value]
NoSummary(attr) == [attr |-> attr, summary |-> FALSE, value |-> 0]

FetchOutcomes ==
    { [kind |-> k, body |-> NoBody]
        : k \in {"network_error", "timeout", "non_ok", "bad_json"} }
    \cup
    { [kind |-> "json", body |-> b]
        : b \in { JsonBody("null", FALSE, <<>>),
                  JsonBody("object", FALSE, <<>>),
                  JsonBody("object", TRUE, <<NoSummary("TOXICITY")>>),
                  JsonBody("object", TRUE, <<Score("TOXICITY", 849)>>),
                  JsonBody("object", TRUE,
                           <<Score("TOXICITY", 900), NoSummary("INSULT")>>),
                  JsonBody("object", TRUE,
                           <<Score("INSULT", 100), Score("THREAT", 700)>>) } }

NoReason == [attr |-> "null", score |-> 0, threshold |-> 0]
NoDetails == JsonBody("undefined", FALSE, <<>>)

\* { flagged, reason, details }, or an exception on its way up.
Verdict(flagged, reason, details) ==
    [threw |-> FALSE, flagged |-> flagged, reason |-> reason, details |-> details]
NotFlagged == Verdict(FALSE, NoReason, NoDetails)
Thrown == [threw |-> TRUE, flagged |-> FALSE, reason |-> NoReason, details |-> NoDetails]

\* Lines 94-104: the attributes in response order; the first breach flags.
RECURSIVE ScanScores(_, _)
ScanScores(scores, body) ==
    IF scores = <<>> THEN Verdict(FALSE, NoReason, body)
    ELSE LET a == Head(scores) IN
         IF ~a.summary THEN Thrown
         ELSE IF a.value >= ThresholdOf(a.attr)
              THEN Verdict(TRUE,
                           [attr |-> a.attr, score |-> a.value,
                            threshold |-> ThresholdOf(a.attr)],
                           body)
              ELSE ScanScores(Tail(scores), body)

\* Lines 61-104: the body of the try block, given what fetch came back with.
TryScore(o) ==
    CASE o.kind \in {"network_error", "timeout"} -> Thrown
      [] o.kind = "non_ok" -> NotFlagged
      [] o.kind = "bad_json" -> Thrown
      [] o.kind = "json" ->
            IF o.body.shape = "null" THEN Thrown
            ELSE ScanScores(IF o.body.hasScores THEN o.body.scores ELSE <<>>,
                            o.body)
      [] OTHER -> NotFlagged

\* The try block without its catch: the exception leaves the function.
ScoreCaught_Rethrow(o) == TryScore(o)

\* Lines 61-108: the try block with its catch.
ScoreCaught(o) == IF TryScore(o).threw THEN NotFlagged ELSE TryScore(o)

\* Lines 57-112.
aiModerationCheck(text, o) ==
    IF text = <<>> THEN NotFlagged
    ELSE IF ScoringEnabled THEN ScoreCaught(o)
    ELSE NotFlagged

\* ------------------------------------------------------------- createPost, addComment
\* Number of createPost / addComment requests in one run.
MaxGateReqs == 2
GateReqIds == 1..MaxGateReqs

\* Community.findOne({_id, members}): the members of community g1.
Members == {"u1"}

\* The moderation rules of the run: a malformed pattern, a literal, a pattern.
GateRules == << <<"/", "(", "/">>, <<"a", "b">>, <<"/", "b", ".", "b", "/">> >>

\* The texts a request can carry: empty, matching the literal in another
\* case, matching no rule.
GateTexts == { <<>>, <<"x", "A", "B">>, <<"b", "a">> }

\* req.body.postId: the seed post.
GatePostIds == { <<"post", 0>> }

IdleGateReq ==
    [op |-> "none", pc |-> "idle", userId |-> Null, text |-> <<>>, file |-> FALSE,
     postId |-> <<"post", -1>>, calls |-> 0, outcome |-> NoOutcome,
     verdict |-> NotFlagged, resp |-> 0, msg |-> ""]

GArrives(r) ==
    /\ creqs[r].pc = "idle"
    /\ \A q \in 1..(r - 1) : creqs[q].pc # "idle"

\* new Comment({...}) of a handler.
NewComment(r, user, post, content) ==
    [_id |-> <<"comment", r>>, user |-> user, post |-> post, content |-> content]

\* The gate with the external call made before the rules are looked at.
ModerationGate_ScorerFirst(text) ==
    IF ScorerCalled(text) THEN "fetch"
    ELSE IF matchesRuleBased(text) THEN "rule"
    ELSE "pass"

\* Lines 137-147 and 579-587: the rule check, then the scorer.  "rule": the
\* text matches a rule; "fetch": the external call is made; "pass": the
\* scorer returns non-flagged without a call.
ModerationGate(text) ==
    IF matchesRuleBased(text) THEN "rule"
    ELSE IF ScorerCalled(text) THEN "fetch"
    ELSE "pass"

\* Lines 21-26: safeUnlink on the file of request r, when it has one.
safeUnlink(r, file) == IF file THEN unlinkQueue \cup {r} ELSE unlinkQueue

\* Lines 118-147: the membership read, the rule check, the start of the
\* scorer.  The upload middleware has written the file before the handler.
CreatePostCheck(r, u, text, file) ==
    /\ GArrives(r)
    /\ LET in == [creqs[r] EXCEPT !.op = "createPost", !.userId = u,
                                  !.text = text, !.file = file]
           gate == ModerationGate(text)
       IN
       /\ disk' = IF file THEN disk \cup {r} ELSE disk
       /\ IF u \notin Members
          THEN /\ creqs' = [creqs EXCEPT ![r] =
                             [in EXCEPT !.pc = "done", !.resp = 401,
                                         !.msg = "unauthorized"]]
               /\ unlinkQueue' = safeUnlink(r, file)
          ELSE IF gate = "rule"
          THEN /\ creqs' = [creqs EXCEPT ![r] =
                             [in EXCEPT !.pc = "done", !.resp = 403,
                                         !.msg = "rule match"]]
               /\ unlinkQueue' = safeUnlink(r, file)
          ELSE IF gate = "fetch"
          THEN /\ creqs' = [creqs EXCEPT ![r] =
                             [in EXCEPT !.pc = "cp_fetch", !.calls = in.calls + 1]]
               /\ UNCHANGED unlinkQueue
          ELSE /\ creqs' = [creqs EXCEPT ![r] =
                             [in EXCEPT !.pc = "cp_save",
                                         !.verdict = aiModerationCheck(text, NoOutcome)]]
               /\ UNCHANGED unlinkQueue
    /\ UNCHANGED <<posts, comments, unlinkLog, env, rules>>
    /\ UNCHANGED lifecycleVars

\* The scorer branch that answers 403 without removing the uploaded file.
CreatePostScored_NoUnlink(r, o) ==
    /\ creqs[r].pc = "cp_fetch"
    /\ LET v == aiModerationCheck(creqs[r].text, o) IN
       creqs' = [creqs EXCEPT ![r] =
                  IF v.flagged
                  THEN [@ EXCEPT !.pc = "done", !.outcome = o, !.verdict = v,
                                 !.resp = 403, !.msg = "AI"]
                  ELSE [@ EXCEPT !.pc = "cp_save", !.outcome = o, !.verdict = v]]
    /\ UNCHANGED <<posts, comments, disk, unlinkQueue, unlinkLog, env, rules>>
    /\ UNCHANGED lifecycleVars

\* Lines 147-157: the scorer's verdict arrives.  An exception out of the
\* scorer would land in the handler's catch (lines 179-182).
CreatePostScored(r, o) ==
    /\ creqs[r].pc = "cp_fetch"
    /\ LET v == aiModerationCheck(creqs[r].text, o) IN
       /\ creqs' = [creqs EXCEPT ![r] =
                     IF v.threw
                     THEN [@ EXCEPT !.pc = "done", !.outcome = o, !.verdict = v,
                                    !.resp = 500, !.msg = "error"]
                     ELSE IF v.flagged
                     THEN [@ EXCEPT !.pc = "done", !.outcome = o, !.verdict = v,
                                    !.resp = 403, !.msg = "AI"]
                     ELSE [@ EXCEPT !.pc = "cp_save", !.outcome = o, !.verdict = v]]
       /\ unlinkQueue' = IF ~v.threw /\ v.flagged
                         THEN safeUnlink(r, creqs[r].file) ELSE unlinkQueue
    /\ UNCHANGED <<posts, comments, disk, unlinkLog, env, rules>>
    /\ UNCHANGED lifecycleVars

\* Lines 159-178: the post is saved, read back and sent.  Nothing deletes
\* a post while these requests run, so the read finds it.
CreatePostSave(r) ==
    /\ creqs[r].pc = "cp_save"
    /\ posts' = posts \cup
                {NewPost(r, creqs[r].userId, "g1", creqs[r].text,
                         IF creqs[r].file THEN "url" ELSE Null,
                         IF creqs[r].file THEN "image/png" ELSE Null)}
    /\ creqs' = [creqs EXCEPT ![r].pc = "done", ![r].resp = 200, ![r].msg = "ok"]
    /\ UNCHANGED <<comments, disk, unlinkQueue, unlinkLog, env, rules>>
    /\ UNCHANGED lifecycleVars

\* Lines 574-593: the rule check and the start of the scorer.
AddCommentCheck(r, u, text, postId) ==
    /\ GArrives(r)
    /\ LET in == [creqs[r] EXCEPT !.op = "addComment", !.userId = u,
                                  !.text = text, !.postId = postId]
           gate == ModerationGate(text)
       IN
       creqs' = [creqs EXCEPT ![r] =
                  IF gate = "rule"
                  THEN [in EXCEPT !.pc = "done", !.resp = 403, !.msg = "rule match"]
                  ELSE IF gate = "fetch"
                  THEN [in EXCEPT !.pc = "ac_fetch", !.calls = in.calls + 1]
                  ELSE [in EXCEPT !.pc = "ac_save",
                                  !.verdict = aiModerationCheck(text, NoOutcome)]]
    /\ UNCHANGED <<posts, comments, disk, unlinkQueue, unlinkLog, env, rules>>
    /\ UNCHANGED lifecycleVars

\* The scorer branch that goes on to save whatever the verdict says.
AddCommentScored_IgnoresVerdict(r, o) ==
    /\ creqs[r].pc = "ac_fetch"
    /\ creqs' = [creqs EXCEPT ![r].pc = "ac_save", ![r].outcome = o,
                              ![r].verdict = aiModerationCheck(creqs[r].text, o)]
    /\ UNCHANGED <<posts, comments, disk, unlinkQueue, unlinkLog, env, rules>>
    /\ UNCHANGED lifecycleVars

\* Lines 587-593: the scorer's verdict arrives.  An exception out of the
\* scorer would land in the handler's catch (lines 617-621).
AddCommentScored(r, o) ==
    /\ creqs[r].pc = "ac_fetch"
    /\ LET v == aiModerationCheck(creqs[r].text, o) IN
       creqs' = [creqs EXCEPT ![r] =
                  IF v.threw
                  THEN [@ EXCEPT !.pc = "done", !.outcome = o, !.verdict = v,
                                 !.resp = 500, !.msg = "error"]
                  ELSE IF v.flagged
                  THEN [@ EXCEPT !.pc = "done", !.outcome = o, !.verdict = v,
                                 !.resp = 403, !.msg = "AI"]
                  ELSE [@ EXCEPT !.pc = "ac_save", !.outcome = o, !.verdict = v]]
    /\ UNCHANGED <<posts, comments, disk, unlinkQueue, unlinkLog, env, rules>>
    /\ UNCHANGED lifecycleVars

\* Lines 596-602: the comment is saved.
AddCommentSave(r) ==
    /\ creqs[r].pc = "ac_save"
    /\ comments' = comments \cup
                   {NewComment(r, creqs[r].userId, creqs[r].postId, creqs[r].text)}
    /\ creqs' = [creqs EXCEPT ![r].pc = "ac_update"]
    /\ UNCHANGED <<posts, disk, unlinkQueue, unlinkLog, env, rules>>
    /\ UNCHANGED lifecycleVars

\* Lines 603-616: $addToSet of the comment's id on the post, when it exists.
AddCommentUpdate(r) ==
    /\ creqs[r].pc = "ac_update"
    /\ posts' = { IF p._id = creqs[r].postId
                  THEN [p EXCEPT !.comments = @ \cup {<<"comment", r>>}]
                  ELSE p : p \in posts }
    /\ creqs' = [creqs EXCEPT ![r].pc = "done", ![r].resp = 200, ![r].msg = "ok"]
    /\ UNCHANGED <<comments, disk, unlinkQueue, unlinkLog, env, rules>>
    /\ UNCHANGED lifecycleVars

\* Lines 23-25: the callback of fs.unlink: the file is gone, or the error
\* is logged and nothing else happens.
UnlinkCallback(f, ok) ==
    /\ f \in unlinkQueue
    /\ unlinkQueue' = unlinkQueue \ {f}
    /\ disk' = IF ok THEN disk \ {f} ELSE disk
    /\ unlinkLog' = IF ok THEN unlinkLog ELSE unlinkLog \cup {f}
    /\ UNCHANGED <<posts, comments, creqs, env, rules>>
    /\ UNCHANGED lifecycleVars

\* ------------------------------------------------------------- specification
\* The run starts with nothing uploaded and no request arrived.
QuietGate ==
    /\ comments = {}
    /\ creqs = [r \in GateReqIds |-> IdleGateReq]
    /\ disk = {}
    /\ unlinkQueue = {}
    /\ unlinkLog = {}
    /\ rules = GateRules

\* The pending-post lifecycle: confirm, reject and expire requests racing.
Init ==
    /\ pending \in PendingStores
    /\ posts = {SeedPost}
    /\ reqs = [r \in ReqIds |-> IdleReq]
    /\ QuietGate
    /\ env = [USE_PERSPECTIVE_API |-> "false", PERSPECTIVE_API_KEY |-> ""]

Next ==
    \/ \E r \in ReqIds, t \in PendingIds, u \in AuthorIds : ConfirmFindOne(r, t, u)
    \/ \E r \in ReqIds : ConfirmFindOneAndDelete(r)
    \/ \E r \in ReqIds : ConfirmSave(r)
    \/ \E r \in ReqIds : ConfirmRespond(r)
    \/ \E r \in ReqIds, t \in PendingIds, u \in AuthorIds : RejectFindOne(r, t, u)
    \/ \E r \in ReqIds : RejectRemove(r)
    \/ \E r \in ReqIds, u \in ActorIds : ClearFindUser(r, u)
    \/ \E r \in ReqIds : ClearDeleteMany(r)
    \/ Crash

Spec == Init /\ [][Next]_vars

\* The moderation gate: createPost and addComment requests, with the
\* scorer enabled or disabled by either setting.
InitGate ==
    /\ pending = {}
    /\ posts = {SeedPost}
    /\ reqs = [r \in ReqIds |-> IdleReq]
    /\ QuietGate
    /\ env \in [USE_PERSPECTIVE_API : {"true", "false"},
                PERSPECTIVE_API_KEY : {"key", ""}]

NextGate ==
    \/ \E r \in GateReqIds, u \in AuthorIds, text \in GateTexts, file \in BOOLEAN :
          CreatePostCheck(r, u, text, file)
    \/ \E r \in GateReqIds, o \in FetchOutcomes : CreatePostScored(r, o)
    \/ \E r \in GateReqIds : CreatePostSave(r)
    \/ \E r \in GateReqIds, text \in GateTexts, postId \in GatePostIds :
          AddCommentCheck(r, "u2", text, postId)
    \/ \E r \in GateReqIds, o \in FetchOutcomes : AddCommentScored(r, o)
    \/ \E r \in GateReqIds : AddCommentSave(r)
    \/ \E r \in GateReqIds : AddCommentUpdate(r)
    \/ \E f \in GateReqIds, ok \in BOOLEAN : UnlinkCallback(f, ok)

SpecGate == InitGate /\ [][NextGate]_vars

\* ------------------------------------------------------------- lifecycle claims
\* Handler r has inserted its live post.
Materialized(r) == \E p \in posts : p._id = <<"post", r>>

\* The pending document carrying token t, if the store still holds it.
HoldsToken(t) == \E p \in pending : p.confirmationToken = t

ConfirmReqs == { r \in ReqIds : reqs[r].op = "confirm" }
RejectReqs == { r \in ReqIds : reqs[r].op = "reject" }
ExpireReqs == { r \in ReqIds : reqs[r].op = "expire" }

\* C1: two confirms by the owner that both read the same pending record:
\* exactly one answers 200 and inserts a live post, the other answers 404,
\* and one live post results from the record.
C1_ExactlyOneConfirmSucceeds ==
    \A r, q \in ConfirmReqs :
        ( /\ r # q
          /\ reqs[r].token = reqs[q].token
          /\ reqs[r].found # NoDoc /\ reqs[q].found # NoDoc
          /\ reqs[r].pc = "done" /\ reqs[q].pc = "done" )
        => /\ {reqs[r].resp, reqs[q].resp} = {200, 404}
           /\ Cardinality({ x \in {r, q} : Materialized(x) }) = 1

\* C2: a confirm and a reject by the owner on the same token: not both
\* report success, and no live post comes from a token whose reject
\* reported success.
C2_ConfirmRejectExclusive ==
    \A r \in ConfirmReqs, q \in RejectReqs :
        reqs[r].token = reqs[q].token
        => /\ ~(reqs[r].resp = 200 /\ reqs[q].resp = 201)
           /\ (reqs[q].resp = 201 => ~Materialized(r))

\* C3: within a confirm the pending record is deleted before the live post
\* is inserted: the record of a token and a live post made from that token
\* never coexist, and a confirm stopped by a crash between the two steps
\* has left neither its record nor a live post of its own.
C3_DeleteBeforeInsert ==
    \A r \in ConfirmReqs :
        /\ Materialized(r) => ~HoldsToken(reqs[r].token)
        /\ (reqs[r].crashed /\ reqs[r].pc = "c_save")
           => (~HoldsToken(reqs[r].token) /\ ~Materialized(r))

\* C3 witness: a confirm crashed between its delete and its insert; the
\* record it removed is gone and no live post carries its content.
C3_Witness ==
    \E r \in ConfirmReqs :
        /\ reqs[r].crashed /\ reqs[r].pc = "c_save"
        /\ reqs[r].deleted # NoDoc
        /\ ~HoldsToken(reqs[r].token)
        /\ \A p \in posts : p.content # reqs[r].found.content

\* C4: once an expire has deleted a pending record, no confirm for its
\* token inserts a live post, not even one that read the record before the
\* expire deleted it (its own delete then removes nothing).
C4_ExpiredNeverMaterialized ==
    \A r \in ConfirmReqs, x \in ExpireReqs :
        reqs[r].found._id \in reqs[x].swept => ~Materialized(r)

\* No pending document matches token t, owner u and status pending.
NoOwnedPending(t, u) ==
    ~\E p \in pending :
        p.confirmationToken = t /\ p.user = u /\ p.status = "pending"

\* C9: a confirm that arrives when no record matches its token, its user
\* and status pending answers 404 at once, and both collections stay as
\* they were; it never inserts a post afterwards.
C9_ConfirmNotFound ==
    [][ \A r \in ReqIds :
          /\ ( /\ reqs[r].pc = "idle"
               /\ reqs'[r].op = "confirm"
               /\ NoOwnedPending(reqs'[r].token, reqs'[r].userId) )
             => /\ reqs'[r].resp = 404 /\ reqs'[r].pc = "done"
                /\ pending' = pending /\ posts' = posts
          /\ (reqs[r].op = "confirm" /\ reqs[r].resp = 404)
             => (reqs'[r] = reqs[r] /\ ~Materialized(r)') ]_vars

\* C9 witness: one confirm was answered 404 because another user owns the
\* record, another because the record's status is not pending; both
\* records are still in the store.
C9_Witness ==
    \E r, q \in ConfirmReqs :
        /\ reqs[r].resp = 404 /\ reqs[q].resp = 404
        /\ \E p \in pending :
              /\ p.confirmationToken = reqs[r].token
              /\ p.status = "pending" /\ p.user # reqs[r].userId
        /\ \E p \in pending :
              /\ p.confirmationToken = reqs[q].token
              /\ p.status # "pending" /\ p.user = reqs[q].userId

\* C10: the remove of a reject takes exactly the record it read out of the
\* pending store, answers 201 and leaves the posts alone; a reject that
\* arrives when no record matches answers 404 and deletes nothing.
C10_RejectFrame ==
    [][ \A r \in ReqIds :
          /\ (reqs[r].pc = "r_remove" /\ reqs'[r].pc = "done")
             => /\ pending' = pending \ {reqs[r].found}
                /\ posts' = posts
                /\ reqs'[r].resp = 201
          /\ ( /\ reqs[r].pc = "idle"
               /\ reqs'[r].op = "reject"
               /\ NoOwnedPending(reqs'[r].token, reqs'[r].userId) )
             => /\ reqs'[r].resp = 404 /\ reqs'[r].pc = "done"
                /\ pending' = pending /\ posts' = posts ]_vars

\* C10 witness: a reject removed its record while another pending record
\* and a live post made by a confirm stayed in place.
C10_Witness ==
    \E r \in RejectReqs :
        /\ reqs[r].resp = 201
        /\ reqs[r].deleted # NoDoc
        /\ ~HoldsToken(reqs[r].token)
        /\ pending # {}
        /\ \E q \in ConfirmReqs : Materialized(q)

\* ------------------------------------------------------------- gate claims
GateReqs == { r \in GateReqIds : creqs[r].op # "none" }

\* What request r has persisted.
PostBy(r) == \E p \in posts : p._id = <<"post", r>>
CommentBy(r) == \E c \in comments : c._id = <<"comment", r>>
ReferencedBy(r) == \E p \in posts : <<"comment", r>> \in p.comments

\* Request r got as far as the gate: addComment always does, createPost
\* does once the membership check has passed.
GateRan(r) == creqs[r].op = "addComment" \/ creqs[r].userId \in Members

\* C5: the rule check runs before the scorer: a request whose text matches
\* a rule is over as soon as it is checked, the external scorer was never
\* called for it, and when it reached the gate the answer is 403 with
\* "rule match".
C5_RuleBeforeScorer ==
    \A r \in GateReqs :
        matchesRuleBased(creqs[r].text)
        => /\ creqs[r].calls = 0
           /\ creqs[r].pc = "done"
           /\ GateRan(r) => (creqs[r].resp = 403 /\ creqs[r].msg = "rule match")

\* C5 witness: with the scorer enabled, a member's createPost and an
\* addComment were both turned down by a rule, with no external call.
C5_Witness ==
    /\ ScoringEnabled
    /\ \E r, q \in GateReqs :
          /\ creqs[r].op = "createPost" /\ creqs[r].userId \in Members
          /\ creqs[q].op = "addComment"
          /\ \A x \in {r, q} :
                /\ matchesRuleBased(creqs[x].text)
                /\ creqs[x].resp = 403 /\ creqs[x].msg = "rule match"
                /\ creqs[x].calls = 0

\* An attribute entry at or over its threshold.
Breaches(a) == a.summary /\ a.value >= ThresholdOf(a.attr)

\* The body is not the expected object: null, no attributeScores, or an
\* entry without summaryScore that no breaching entry precedes.
MalformedBody(b) ==
    \/ b.shape = "null"
    \/ ~b.hasScores
    \/ \E k \in 1..Len(b.scores) :
          /\ ~b.scores[k].summary
          /\ \A j \in 1..(k - 1) : ~Breaches(b.scores[j])

\* The external call failed.
FailedCall(o) ==
    \/ o.kind \in {"network_error", "timeout", "non_ok", "bad_json"}
    \/ (o.kind = "json" /\ MalformedBody(o.body))

\* C6: the scorer is fail-open: when the external call of a request failed
\* (network error, timeout, non-success status, malformed body) the verdict
\* is non-flagged, no exception left the scorer, the request is neither
\* blocked nor failed, and once it is over its content is persisted.
C6_ScorerFailOpen ==
    \A r \in GateReqs :
        FailedCall(creqs[r].outcome)
        => /\ ~creqs[r].verdict.threw
           /\ ~creqs[r].verdict.flagged
           /\ creqs[r].resp \notin {403, 500}
           /\ creqs[r].pc = "done"
              => /\ creqs[r].resp = 200
                 /\ (creqs[r].op = "createPost" => PostBy(r))
                 /\ (creqs[r].op = "addComment" => CommentBy(r))

\* C6 witness: a createPost whose call timed out and an addComment whose
\* response body could not be parsed both created their content.
C6_Witness ==
    \E r, q \in GateReqs :
        /\ creqs[r].op = "createPost" /\ creqs[r].outcome.kind = "timeout"
        /\ creqs[r].resp = 200 /\ PostBy(r)
        /\ creqs[q].op = "addComment" /\ creqs[q].outcome.kind = "bad_json"
        /\ creqs[q].resp = 200 /\ CommentBy(q) /\ ReferencedBy(q)

\* C7: the gate gates creation: a post, a comment or a comment reference
\* of a request exists only if its text matched no rule and the scorer's
\* verdict for it was non-flagged; a request answered 403 has persisted
\* none of the three; and every post and comment comes from a request.
C7_GateGatesCreation ==
    /\ \A r \in GateReqIds :
          /\ (PostBy(r) \/ CommentBy(r) \/ ReferencedBy(r))
             => /\ ~matchesRuleBased(creqs[r].text)
                /\ ~creqs[r].verdict.flagged
                /\ ~creqs[r].verdict.threw
          /\ creqs[r].resp = 403
             => (~PostBy(r) /\ ~CommentBy(r) /\ ~ReferencedBy(r))
    /\ \A p \in posts :
          \/ p._id = SeedPost._id
          \/ \E r \in GateReqs : creqs[r].op = "createPost" /\ p._id = <<"post", r>>
    /\ \A c \in comments :
          \E r \in GateReqs : creqs[r].op = "addComment" /\ c._id = <<"comment", r>>

\* C7 witness: a comment scored under its thresholds is persisted and
\* referenced, and a createPost flagged by the scorer persisted nothing.
C7_Witness ==
    \E r, q \in GateReqs :
        /\ creqs[r].op = "addComment" /\ creqs[r].calls = 1
        /\ creqs[r].outcome.kind = "json" /\ ~MalformedBody(creqs[r].outcome.body)
        /\ CommentBy(r) /\ ReferencedBy(r)
        /\ creqs[q].op = "createPost"
        /\ creqs[q].resp = 403 /\ creqs[q].msg = "AI"
        /\ ~PostBy(q)

\* The deletion of request r's uploaded file has been issued: the call is
\* pending, or it failed and was logged, or the file is gone.
UnlinkIssued(r) == r \in unlinkQueue \/ r \in unlinkLog \/ r \notin disk

\* C8: a createPost that carried a file and ended flagged (403) has issued
\* the deletion of the file by the time it answers and has created no post;
\* a deletion that failed is in the log only: the request is over with the
\* answer it had.
C8_RollbackStagedMedia ==
    \A r \in GateReqs :
        (creqs[r].op = "createPost" /\ creqs[r].file)
        => /\ creqs[r].resp = 403 => (UnlinkIssued(r) /\ ~PostBy(r))
           /\ r \in unlinkLog
              => (creqs[r].pc = "done" /\ creqs[r].resp \in {401, 403})

\* C8 witness: a createPost flagged by the scorer whose deletion failed:
\* still 403, the failure logged, the file still on disk; and one flagged
\* by a rule whose file is gone.
C8_Witness ==
    \E r, q \in GateReqs :
        /\ creqs[r].op = "createPost" /\ creqs[r].file
        /\ creqs[r].resp = 403 /\ creqs[r].msg = "AI"
        /\ r \in unlinkLog /\ r \in disk /\ ~PostBy(r)
        /\ creqs[q].op = "createPost" /\ creqs[q].file
        /\ creqs[q].resp = 403 /\ creqs[q].msg = "rule match"
        /\ q \notin disk /\ q \notin unlinkLog

\* ------------------------------------------------------------- expiry runs
\* Pending documents of every age around the cutoff: created before it, at
\* it, and after it; deleteMany's filter has no status condition, so both
\* statuses appear.
ExpiryShapes ==
    [status : {"pending", "archived"},
     createdAt : {Cutoff - 1, Cutoff, Cutoff + 1}]

ExpiryStores ==
    { { PendingDoc(i, f[i]) : i \in PendingIds } : f \in [PendingIds -> ExpiryShapes] }

\* Expiry runs only, one after another or overlapping, by any actor.
InitExpire ==
    /\ pending \in ExpiryStores
    /\ posts = {SeedPost}
    /\ reqs = [r \in ReqIds |-> IdleReq]
    /\ QuietGate
    /\ env = [USE_PERSPECTIVE_API |-> "false", PERSPECTIVE_API_KEY |-> ""]

NextExpire ==
    \/ \E r \in ReqIds, u \in ActorIds : ClearFindUser(r, u)
    \/ \E r \in ReqIds : ClearDeleteMany(r)
    \/ Crash

SpecExpire == InitExpire /\ [][NextExpire]_vars

\* C11: the deleting step of an expiry run is taken for a moderator only,
\* removes exactly the pending documents created at or before now minus one
\* hour, whoever owns them, keeps every newer one as it was, and leaves the
\* live posts unchanged.
C11_ExpireDeletesExactlyExpired ==
    [][\A r \in ReqIds :
          (reqs[r].pc = "x_delete" /\ reqs'[r].pc = "done")
          => /\ FindUserById(reqs[r].userId).role = "moderator"
             /\ reqs'[r].resp = 200
             /\ pending' = { p \in pending : p.createdAt + Hour > Now }
             /\ posts' = posts]_vars

\* An expiry run has answered 200 having deleted a document that is not the
\* moderator's own, and a newer document is still in the store.
C11_Witness ==
    \E r \in ExpireReqs :
        /\ reqs[r].resp = 200
        /\ \E i \in reqs[r].swept : OwnerOf(i) # reqs[r].userId
        /\ \E p \in pending : p.createdAt > Cutoff

\* C12: an expiry run whose deleteMany takes effect after another expiry run
\* has answered 200 (nothing creates pending documents in between) deletes
\* no document and leaves the pending store as the first run left it.
C12_ExpireIdempotent ==
    [][\A r \in ReqIds :
          (/\ reqs[r].pc = "x_delete" /\ reqs'[r].pc = "done"
           /\ \E q \in ExpireReqs \ {r} : reqs[q].resp = 200)
          => /\ reqs'[r].swept = {}
             /\ pending' = pending]_vars

\* Two expiry runs have answered 200; the first deleted every document it
\* could (more than one), the second none.
C12_Witness ==
    \E r, q \in ExpireReqs :
        /\ r # q
        /\ reqs[r].resp = 200 /\ reqs[q].resp = 200
        /\ Cardinality(reqs[r].swept) >= 2
        /\ reqs[q].swept = {}

\* ------------------------------------------------------------- stored comments
\* Number of comments the store holds before the run.
NumComments == 2
SeedCommentIds == 1..NumComments

\* A post older than the seed post, so that comments have different parents.
OlderPost == [SeedPost EXCEPT !._id = <<"post", -2>>]

\* What a stored comment can say: a literal rule in another letter case, a
\* text the pattern rule matches, a text no rule matches.
SeedContents == { <<"x", "A", "B">>, <<"b", "x", "b">>, <<"b", "a">> }

\* Stored comment k: written by alternating users under alternating posts.
SeedComment(k, content) ==
    [_id |-> <<"seed", k>>, user |-> OwnerOf(k),
     post |-> IF k % 2 = 1 THEN SeedPost._id ELSE OlderPost._id,
     content |-> content]

CommentStores ==
    { { SeedComment(k, f[k]) : k \in SeedCommentIds } : f \in [SeedCommentIds -> SeedContents] }

\* The posts, each holding the references of the comments written under it.
PostsHolding(store) ==
    { [p EXCEPT !.comments = { c._id : c \in { d \in store : d.post = p._id } }]
      : p \in {SeedPost, OlderPost} }

\* req.userId of a moderation request: no document, general, moderator, admin.
StaffIds == ActorIds \cup {"u3"}

\* ------------------------------------------------------------- cleanupOffensiveComments
\* Comment.find({}) returns the documents in natural (insertion) order:
\* the stored comments first, then those added during the run.
Rank(c) == IF c._id[1] = "seed" THEN c._id[2] ELSE NumComments + c._id[2]

FindAllComments ==
    [i \in 1..Cardinality(comments) |->
        CHOOSE c \in comments : Cardinality({ d \in comments : Rank(d) < Rank(c) }) = i - 1]

\* The loop looking only at comments their parent post still refers to.
NextMatch_ReferencedOnly(all, from) ==
    LET hits == { i \in from..Len(all) :
                    /\ matchesRuleBased(all[i].content)
                    /\ \E p \in posts : p._id = all[i].post /\ all[i]._id \in p.comments }
    IN IF hits = {} THEN Len(all) + 1
       ELSE CHOOSE i \in hits : \A j \in hits : i <= j

\* Lines 688-689: the loop runs, without suspending, to the next comment
\* whose content matches a rule; past the end when there is none.
NextMatch(all, from) ==
    LET hits == { i \in from..Len(all) : matchesRuleBased(all[i].content) }
    IN IF hits = {} THEN Len(all) + 1
       ELSE CHOOSE i \in hits : \A j \in hits : i <= j

\* The role check letting every existing user through.
SweepFindUser_AnyUser(r, u) ==
    /\ Arrives(r)
    /\ reqs' = [reqs EXCEPT ![r] =
                 IF FindUserById(u) = NoUser
                 THEN [@ EXCEPT !.op = "sweep", !.pc = "done", !.userId = u, !.resp = 403]
                 ELSE [@ EXCEPT !.op = "sweep", !.pc = "s_find", !.userId = u]]
    /\ UNCHANGED <<pending, posts>>
    /\ UNCHANGED gateVars

\* Lines 677-683: User.findById, then the role check: 403 unless the user
\* exists and is an admin.
SweepFindUser(r, u) ==
    /\ Arrives(r)
    /\ LET user == FindUserById(u) IN
       reqs' = [reqs EXCEPT ![r] =
                 IF user = NoUser \/ user.role # "admin"
                 THEN [@ EXCEPT !.op = "sweep", !.pc = "done", !.userId = u, !.resp = 403]
                 ELSE [@ EXCEPT !.op = "sweep", !.pc = "s_find", !.userId = u]]
    /\ UNCHANGED <<pending, posts>>
    /\ UNCHANGED gateVars

\* Lines 685-689 and 700-703: Comment.find({}) returns; the loop runs to the
\* first matching comment's $pull, or to the response when nothing matches.
SweepFind(r) ==
    /\ At(r, "s_find")
    /\ LET all == FindAllComments
           i == NextMatch(all, 1)
       IN reqs' = [reqs EXCEPT ![r] =
                    IF i > Len(all)
                    THEN [@ EXCEPT !.pc = "done", !.resp = 200, !.allComments = all,
                                   !.idx = i]
                    ELSE [@ EXCEPT !.pc = "s_pull", !.allComments = all, !.idx = i]]
    /\ UNCHANGED <<pending, posts>>
    /\ UNCHANGED gateVars

\* The $pull left out.
SweepPull_NoPull(r) ==
    /\ At(r, "s_pull")
    /\ reqs' = [reqs EXCEPT ![r].pc = "s_remove"]
    /\ UNCHANGED <<pending, posts>>
    /\ UNCHANGED gateVars

\* Lines 691-694: Post.findByIdAndUpdate(comment.post, {$pull: {comments: comment._id}}).
SweepPull(r) ==
    /\ At(r, "s_pull")
    /\ LET c == reqs[r].allComments[reqs[r].idx] IN
       posts' = { IF p._id = c.post THEN [p EXCEPT !.comments = @ \ {c._id}] ELSE p
                  : p \in posts }
    /\ reqs' = [reqs EXCEPT ![r].pc = "s_remove"]
    /\ UNCHANGED pending
    /\ UNCHANGED gateVars

\* Lines 697-703: comment.remove() deletes the document with the comment's
\* _id; deletedCount++; then the loop goes on to the next match or to the
\* response.
SweepRemove(r) ==
    /\ At(r, "s_remove")
    /\ LET all == reqs[r].allComments
           c == all[reqs[r].idx]
           i == NextMatch(all, reqs[r].idx + 1)
       IN /\ comments' = { d \in comments : d._id # c._id }
          /\ reqs' = [reqs EXCEPT ![r] =
                       IF i > Len(all)
                       THEN [@ EXCEPT !.pc = "done", !.resp = 200, !.idx = i,
                                      !.deletedCount = @ + 1]
                       ELSE [@ EXCEPT !.pc = "s_pull", !.idx = i,
                                      !.deletedCount = @ + 1]]
    /\ UNCHANGED <<pending, posts>>
    /\ UNCHANGED <<creqs, disk, unlinkQueue, unlinkLog, env, rules>>

\* No handler is suspended: the next request runs with no concurrent one.
Quiescent == \A q \in ReqIds : ~InFlight(q)

\* The comment store with stored comments and nothing else going on.
QuietComments(store) ==
    /\ comments = store
    /\ posts = PostsHolding(store)
    /\ creqs = [r \in GateReqIds |-> IdleGateReq]
    /\ disk = {}
    /\ unlinkQueue = {}
    /\ unlinkLog = {}
    /\ rules = GateRules
    /\ env = [USE_PERSPECTIVE_API |-> "false", PERSPECTIVE_API_KEY |-> ""]

\* Sweeps one at a time, each possibly cut short by the server stopping.
InitSweep ==
    /\ pending = {}
    /\ reqs = [r \in ReqIds |-> IdleReq]
    /\ \E store \in CommentStores : QuietComments(store)

NextSweep ==
    \/ \E r \in ReqIds, u \in StaffIds : Quiescent /\ SweepFindUser(r, u)
    \/ \E r \in ReqIds : SweepFind(r)
    \/ \E r \in ReqIds : SweepPull(r)
    \/ \E r \in ReqIds : SweepRemove(r)
    \/ Crash

SpecSweep == InitSweep /\ [][NextSweep]_vars

\* ------------------------------------------------------------- role checks
\* Expiry runs and sweeps by every kind of actor, over a pending store whose
\* documents are all old enough to expire and a comment store that may hold
\* matching comments.
InitRoles ==
    /\ pending = { PendingDoc(i, [status |-> "pending", createdAt |-> Cutoff])
                   : i \in PendingIds }
    /\ reqs = [r \in ReqIds |-> IdleReq]
    /\ \E store \in CommentStores : QuietComments(store)

NextRoles ==
    \/ \E r \in ReqIds, u \in StaffIds : ClearFindUser(r, u)
    \/ \E r \in ReqIds : ClearDeleteMany(r)
    \/ \E r \in ReqIds, u \in StaffIds : SweepFindUser(r, u)
    \/ \E r \in ReqIds : SweepFind(r)
    \/ \E r \in ReqIds : SweepPull(r)
    \/ \E r \in ReqIds : SweepRemove(r)

SpecRoles == InitRoles /\ [][NextRoles]_vars

\* C13: the first step of an expiry run by a user whose role is not
\* moderator, and of a sweep by an actor who is not an admin or has no user
\* document, ends the request with a refusal (401 for the expiry run, 403
\* for the sweep) and changes neither the pending store, nor the comment
\* store, nor any post's comment set.
C13_RoleCheckBeforeMutation ==
    [][\A r \in ReqIds :
          (reqs[r].pc = "idle" /\ reqs'[r].pc # "idle")
          => LET user == FindUserById(reqs'[r].userId) IN
             /\ (reqs'[r].op = "expire" /\ user # NoUser /\ user.role # "moderator")
                => /\ reqs'[r].pc = "done" /\ reqs'[r].resp = 401
                   /\ UNCHANGED <<pending, comments, posts>>
             /\ (reqs'[r].op = "sweep" /\ (user = NoUser \/ user.role # "admin"))
                => /\ reqs'[r].pc = "done" /\ reqs'[r].resp = 403
                   /\ UNCHANGED <<pending, comments, posts>>]_vars

\* An expiry run by an admin was refused and so were sweeps by a moderator
\* and by an actor without a user document, with expirable records and a
\* matching comment in the stores.
C13_Witness ==
    /\ \E r \in ExpireReqs : reqs[r].userId = "u3" /\ reqs[r].resp = 401
    /\ \E r \in ReqIds :
          reqs[r].op = "sweep" /\ reqs[r].userId \in {"u0", "u2"} /\ reqs[r].resp = 403
    /\ \E p \in pending : p.createdAt <= Cutoff
    /\ \E c \in comments : matchesRuleBased(c.content)

\* ------------------------------------------------------------- sweep claims
SweepReqs == { r \in ReqIds : reqs[r].op = "sweep" }

\* The comments a sweep read with Comment.find({}), and those among them
\* whose content matches a rule.
Snapshot(r) == { reqs[r].allComments[i] : i \in 1..Len(reqs[r].allComments) }
Offending(r) == { c \in Snapshot(r) : matchesRuleBased(c.content) }

\* Some post's comment set holds the reference id.
Referenced(id) == \E p \in posts : id \in p.comments

\* The document with this _id is in the comment store.
Stored(id) == \E c \in comments : c._id = id

\* C14: once a sweep, run by an admin with no other request in flight, has
\* answered 200: every comment it read whose content matches a rule is gone
\* from the comment store and from every post's comment set, every other
\* comment it read is still stored, unchanged, and referenced by its parent
\* post, and the deletedCount it returned is the number of comments removed.
C14_SweepRemovesExactlyMatches ==
    \A r \in SweepReqs :
        reqs[r].resp = 200
        => /\ FindUserById(reqs[r].userId).role = "admin"
           /\ \A c \in Offending(r) : ~Stored(c._id) /\ ~Referenced(c._id)
           /\ \A c \in Snapshot(r) \ Offending(r) :
                 /\ c \in comments
                 /\ \E p \in posts : p._id = c.post /\ c._id \in p.comments
           /\ comments = Snapshot(r) \ Offending(r)
           /\ reqs[r].deletedCount = Cardinality(Offending(r))

\* A sweep answered 200 after removing one comment and keeping another.
C14_Witness ==
    \E r \in SweepReqs :
        /\ reqs[r].resp = 200
        /\ reqs[r].deletedCount = 1
        /\ Cardinality(Snapshot(r)) >= 2
        /\ comments # {}

\* C15: in every reachable state of a sweep, a crash after any store
\* operation included, each stored comment is either fully present (its
\* document exists and its parent post's comment set holds its reference)
\* or fully removed (neither exists).
C15_PerCommentAtomic ==
    \A k \in SeedCommentIds :
        LET c == SeedComment(k, <<>>) IN
        Stored(c._id) <=> (\E p \in posts : p._id = c.post /\ c._id \in p.comments)

\* C16: (a) after a sweep that stopped part-way and a later sweep that
\* answered 200, the comment store and the comment sets are what one
\* uninterrupted sweep of the store the stopped sweep read leaves: its
\* non-matching comments, each referenced by its parent post and nothing
\* else; (b) a sweep that answers 200 after an earlier sweep answered 200
\* read the store as it is now, removed nothing and returned deletedCount 0.
C16_SweepRerunSafe ==
    \A r \in SweepReqs :
        reqs[r].resp = 200
        => /\ \A q \in SweepReqs :
                 (reqs[q].crashed /\ reqs[q].pc \in {"s_pull", "s_remove"})
                 => LET kept == Snapshot(q) \ Offending(q) IN
                    /\ comments = kept
                    /\ \A p \in posts :
                          p.comments = { c._id : c \in { d \in kept : d.post = p._id } }
           /\ \A q \in SweepReqs :
                 (q < r /\ reqs[q].resp = 200)
                 => /\ reqs[r].deletedCount = 0
                    /\ Snapshot(r) = comments

\* A sweep stopped between the $pull and the remove of a comment, with
\* another matching comment not yet reached; a later sweep answered 200.
C16_Witness ==
    \E q, r \in SweepReqs :
        /\ reqs[q].crashed /\ reqs[q].pc = "s_remove"
        /\ Cardinality(Offending(q)) >= 2
        /\ reqs[q].deletedCount = 0
        /\ reqs[r].resp = 200
        /\ reqs[r].deletedCount >= 2

\* ------------------------------------------------------------- deleteComment
\* req.params.commentId: a stored comment or one added during the run.
CommentIds ==
    { <<"seed", k>> : k \in SeedCommentIds } \cup { <<"comment", g>> : g \in GateReqIds }

\* Comment.findById(id)
FindCommentById(id) ==
    IF \E c \in comments : c._id = id
    THEN CHOOSE c \in comments : c._id = id
    ELSE NoDoc

\* The handler without its permission check.
DeleteCommentFind_AnyUser(r, id, u) ==
    /\ Arrives(r)
    /\ LET comment == FindCommentById(id)
           in == [reqs[r] EXCEPT !.op = "deleteComment", !.userId = u, !.commentId = id]
       IN
       reqs' = [reqs EXCEPT ![r] =
                 IF comment = NoDoc
                 THEN [in EXCEPT !.pc = "done", !.resp = 404]
                 ELSE [in EXCEPT !.pc = "d_pull", !.found = comment]]
    /\ UNCHANGED <<pending, posts>>
    /\ UNCHANGED gateVars

\* Lines 633-646: Comment.findById (404 when there is none), User.findById,
\* then the permission check: the author, an admin or a moderator.  The
\* User collection is never written, so the two reads are one step.
DeleteCommentFind(r, id, u) ==
    /\ Arrives(r)
    /\ LET comment == FindCommentById(id)
           user == FindUserById(u)
           in == [reqs[r] EXCEPT !.op = "deleteComment", !.userId = u, !.commentId = id]
       IN
       reqs' = [reqs EXCEPT ![r] =
                 IF comment = NoDoc
                 THEN [in EXCEPT !.pc = "done", !.resp = 404]
                 ELSE IF /\ comment.user # u
                         /\ ~(user # NoUser /\ user.role \in {"admin", "moderator"})
                 THEN [in EXCEPT !.pc = "done", !.resp = 403]
                 ELSE [in EXCEPT !.pc = "d_pull", !.found = comment]]
    /\ UNCHANGED <<pending, posts>>
    /\ UNCHANGED gateVars

\* Lines 648-651: Post.findByIdAndUpdate(comment.post, {$pull: {comments: commentId}}).
DeleteCommentPull(r) ==
    /\ At(r, "d_pull")
    /\ posts' = { IF p._id = reqs[r].found.post
                  THEN [p EXCEPT !.comments = @ \ {reqs[r].commentId}]
                  ELSE p : p \in posts }
    /\ reqs' = [reqs EXCEPT ![r].pc = "d_remove"]
    /\ UNCHANGED pending
    /\ UNCHANGED gateVars

\* Lines 654-658: comment.remove(), then 200.
DeleteCommentRemove(r) ==
    /\ At(r, "d_remove")
    /\ comments' = { d \in comments : d._id # reqs[r].found._id }
    /\ reqs' = [reqs EXCEPT ![r].pc = "done", ![r].resp = 200]
    /\ UNCHANGED <<pending, posts>>
    /\ UNCHANGED <<creqs, disk, unlinkQueue, unlinkLog, env, rules>>

\* addComment, deleteComment and sweep requests interleaved at every await,
\* with the scorer disabled.  The stored comments alternate between one
\* matching a rule and one matching none; comments are added with a text
\* that passes the gate; comments are deleted by a general user and by an
\* admin.
InitComments ==
    /\ pending = {}
    /\ reqs = [r \in ReqIds |-> IdleReq]
    /\ QuietComments({ SeedComment(k, IF k % 2 = 1 THEN <<"b", "x", "b">> ELSE <<"b", "a">>)
                       : k \in SeedCommentIds })

NextComments ==
    \/ \E r \in GateReqIds, postId \in GatePostIds :
          AddCommentCheck(r, "u2", <<"b", "a">>, postId)
    \/ \E r \in GateReqIds : AddCommentSave(r)
    \/ \E r \in GateReqIds : AddCommentUpdate(r)
    \/ \E r \in ReqIds, id \in CommentIds, u \in {"u1", "u3"} : DeleteCommentFind(r, id, u)
    \/ \E r \in ReqIds : DeleteCommentPull(r)
    \/ \E r \in ReqIds : DeleteCommentRemove(r)
    \/ \E r \in ReqIds : SweepFindUser(r, "u3")
    \/ \E r \in ReqIds : SweepFind(r)
    \/ \E r \in ReqIds : SweepPull(r)
    \/ \E r \in ReqIds : SweepRemove(r)

SpecComments == InitComments /\ [][NextComments]_vars

\* ------------------------------------------------------------- comment-set claims
\* No addComment, deleteComment or sweep request is in flight.
AllCompleted ==
    /\ \A r \in ReqIds : reqs[r].pc \in {"idle", "done"}
    /\ \A g \in GateReqIds : creqs[g].pc \in {"idle", "done"}

\* C17: whenever no addComment, deleteComment or sweep request is in
\* flight, every reference held by a post's comment set is the _id of a
\* document in the comment store.
C17_CommentSetIntegrity ==
    AllCompleted => \A p \in posts : \A id \in p.comments : Stored(id)

\* ------------------------------------------------------------- scorer responses
\* Number of attributes in one response of the scoring service.
MaxAttrs == 2

\* The attributes requested (lines 66-70), and one the threshold table does
\* not list.
AttrNames ==
    {"TOXICITY", "INSULT", "THREAT", "IDENTITY_ATTACK", "SEXUALLY_EXPLICIT", "PROFANITY"}

\* summaryScore.value in thousandths: each threshold and the value just
\* below it.  (A missing value becomes 0, line 95, which is below them all.)
ScoreValues == {699, 700, 799, 800, 849, 850, 899, 900}

\* One entry of attributeScores.
ScoreEntries == { Score(a, v) : a \in AttrNames, v \in ScoreValues }

\* The keys of a JSON object are distinct.
DistinctKeys(f) == \A i, j \in DOMAIN f : i # j => f[i].attr # f[j].attr

\* A successful response: an object whose attributeScores are f, in
\* response order.
ScoreOutcome(f) == [kind |-> "json", body |-> JsonBody("object", TRUE, f)]

\* A successful response without attributeScores.
NoScoresOutcome == [kind |-> "json", body |-> JsonBody("object", FALSE, <<>>)]

\* One addComment request with a text that passes the rules, scoring
\* enabled, and any successful response.
InitScorer ==
    /\ pending = {}
    /\ posts = {SeedPost}
    /\ reqs = [r \in ReqIds |-> IdleReq]
    /\ QuietGate
    /\ env = [USE_PERSPECTIVE_API |-> "true", PERSPECTIVE_API_KEY |-> "key"]

NextScorer ==
    \/ \E postId \in GatePostIds : AddCommentCheck(1, "u2", <<"b", "a">>, postId)
    \/ /\ creqs[1].pc = "ac_fetch"
       /\ \E n \in 0..MaxAttrs : \E f \in [1..n -> ScoreEntries] :
             DistinctKeys(f) /\ AddCommentScored(1, ScoreOutcome(f))
    \/ AddCommentScored(1, NoScoresOutcome)
    \/ AddCommentSave(1)
    \/ AddCommentUpdate(1)

SpecScorer == InitScorer /\ [][NextScorer]_vars

\* ------------------------------------------------------------- scorer claims
\* The thresholds as the claim lists them, in thousandths.
ClaimedThreshold(attr) ==
    CASE attr = "TOXICITY" -> 850
      [] attr = "INSULT" -> 850
      [] attr = "THREAT" -> 700
      [] attr = "IDENTITY_ATTACK" -> 800
      [] attr = "SEXUALLY_EXPLICIT" -> 900
      [] OTHER -> 900

\* The positions of the returned attributes whose score reaches the threshold.
BreachingAt(body) ==
    { i \in 1..Len(body.scores) :
        body.scores[i].value >= ClaimedThreshold(body.scores[i].attr) }

\* C18: with both settings present and a successful response whose
\* attributes all carry a summary score, the verdict is flagged exactly when
\* some returned attribute's score is at or above its threshold; the reason
\* then names the first such attribute in response order with its score and
\* threshold; otherwise the verdict is non-flagged, without a reason, and
\* its details are the response as received.
C18_FlaggedIffBreach ==
    \A g \in GateReqIds :
        LET o == creqs[g].outcome
            v == creqs[g].verdict
            hit == BreachingAt(o.body)
        IN (/\ env.USE_PERSPECTIVE_API = "true" /\ env.PERSPECTIVE_API_KEY # ""
            /\ o.kind = "json" /\ o.body.shape = "object"
            /\ \A i \in 1..Len(o.body.scores) : o.body.scores[i].summary)
           => /\ ~v.threw
              /\ v.flagged <=> hit # {}
              /\ v.flagged
                 => LET first == CHOOSE i \in hit : \A j \in hit : i <= j IN
                    /\ v.reason.attr = o.body.scores[first].attr
                    /\ v.reason.score = o.body.scores[first].value
                    /\ v.reason.threshold = ClaimedThreshold(v.reason.attr)
              /\ ~v.flagged => v.reason = NoReason /\ v.details = o.body

\* A response whose first attribute scores 0.7 or more without reaching its
\* own threshold and whose second attribute breaches: flagged for the second.
C18_Witness ==
    \E g \in GateReqIds :
        LET o == creqs[g].outcome IN
        /\ o.kind = "json" /\ Len(o.body.scores) = 2
        /\ o.body.scores[1].value >= 700
        /\ creqs[g].verdict.flagged
        /\ creqs[g].verdict.reason.attr = o.body.scores[2].attr
        /\ creqs[g].resp = 403

\* ------------------------------------------------------------- scoring disabled
\* createPost and addComment requests under the three settings that leave
\* the scorer disabled: the flag not "true", the key absent, or both.
InitDisabled ==
    /\ pending = {}
    /\ posts = {SeedPost}
    /\ reqs = [r \in ReqIds |-> IdleReq]
    /\ QuietGate
    /\ env \in { e \in [USE_PERSPECTIVE_API : {"true", "false"},
                         PERSPECTIVE_API_KEY : {"key", ""}] :
                    ~(e.USE_PERSPECTIVE_API = "true" /\ e.PERSPECTIVE_API_KEY = "key") }

NextDisabled ==
    \/ \E r \in GateReqIds, u \in AuthorIds, text \in GateTexts, file \in BOOLEAN :
          CreatePostCheck(r, u, text, file)
    \/ \E r \in GateReqIds : CreatePostSave(r)
    \/ \E r \in GateReqIds, text \in GateTexts, postId \in GatePostIds :
          AddCommentCheck(r, "u2", text, postId)
    \/ \E r \in GateReqIds : AddCommentSave(r)
    \/ \E r \in GateReqIds : AddCommentUpdate(r)
    \/ \E f \in GateReqIds, ok \in BOOLEAN : UnlinkCallback(f, ok)

SpecDisabled == InitDisabled /\ [][NextDisabled]_vars

\* C19: when the enable flag is not "true" or no API key is configured, no
\* request makes an external call and no verdict is flagged; a request that
\* reached the gate with a text matching no rule is never refused, and once
\* it has answered, the answer is 200 and its post, or its comment and the
\* comment's reference, exist.
C19_DisabledScorerPasses ==
    (env.USE_PERSPECTIVE_API # "true" \/ env.PERSPECTIVE_API_KEY = "")
    => \A r \in GateReqs :
          /\ creqs[r].calls = 0
          /\ ~creqs[r].verdict.flagged /\ ~creqs[r].verdict.threw
          /\ (GateRan(r) /\ ~matchesRuleBased(creqs[r].text))
             => /\ creqs[r].pc \in {"cp_save", "ac_save", "ac_update", "done"}
                /\ creqs[r].pc = "done"
                   => /\ creqs[r].resp = 200
                      /\ creqs[r].op = "createPost" => PostBy(r)
                      /\ creqs[r].op = "addComment" => CommentBy(r) /\ ReferencedBy(r)

\* The flag is set but the key is absent; a member's post and a comment,
\* both with a text that matches no rule, were created.
C19_Witness ==
    /\ env.USE_PERSPECTIVE_API = "true" /\ env.PERSPECTIVE_API_KEY = ""
    /\ \E r, q \in GateReqs :
          /\ creqs[r].op = "createPost" /\ creqs[r].text # <<>>
          /\ creqs[r].resp = 200 /\ PostBy(r)
          /\ creqs[q].op = "addComment" /\ creqs[q].text # <<>>
          /\ creqs[q].resp = 200 /\ CommentBy(q)

\* ------------------------------------------------------------- rule lists
\* Number of rules in moderationRules.rules.
MaxRules == 2

\* The rules a list is made of: literals in lower, upper and mixed case,
\* the empty literal, a pattern, and a pattern that does not compile.
RulePool ==
    { <<"a", "b">>, <<"B">>, <<"A", "x">>, <<>>,
      <<"/", "b", ".", "b", "/">>, <<"/", "(", "/">> }

RuleLists == UNION { [1..n -> RulePool] : n \in 0..MaxRules }

\* The texts checked: empty, and letters of both cases in several orders.
RuleTexts ==
    { <<>>, <<"x", "A", "B">>, <<"b", "a">>, <<"a", "X">>, <<"b", "x", "b">>, <<"b">> }

\* One addComment request, its text checked against any rule list, with the
\* scorer disabled.
InitRules ==
    /\ pending = {}
    /\ posts = {SeedPost}
    /\ reqs = [r \in ReqIds |-> IdleReq]
    /\ comments = {}
    /\ creqs = [r \in GateReqIds |-> IdleGateReq]
    /\ disk = {}
    /\ unlinkQueue = {}
    /\ unlinkLog = {}
    /\ env = [USE_PERSPECTIVE_API |-> "false", PERSPECTIVE_API_KEY |-> ""]
    /\ rules \in RuleLists

NextRules ==
    \/ \E text \in RuleTexts, postId \in GatePostIds :
          AddCommentCheck(1, "u2", text, postId)
    \/ AddCommentSave(1)
    \/ AddCommentUpdate(1)

SpecRules == InitRules /\ [][NextRules]_vars

\* ------------------------------------------------------------- rule claims
\* The same letter, whatever the case.
SameLetter(a, b) ==
    \/ a = b
    \/ {a, b} \in { {"a", "A"}, {"b", "B"}, {"x", "X"} }

\* A literal rule: one that is not written between two slashes.
IsLiteralRule(r) == ~(Len(r) >= 1 /\ r[1] = "/" /\ r[Len(r)] = "/")

\* The text contains the literal as a substring, in any letter case.
ContainsAnyCase(text, lit) ==
    \E i \in 0..(Len(text) - Len(lit)) :
        \A k \in 1..Len(lit) : SameLetter(text[i + k], lit[k])

\* Rule number i of the configured list matches the text: a literal it
\* contains, or a pattern that compiles and matches.
RuleMatches(i, text) ==
    IF IsLiteralRule(rules[i]) THEN ContainsAnyCase(text, rules[i])
    ELSE /\ ~RegExpThrows(Slice1(rules[i]))
         /\ RegExpTest(Slice1(rules[i]), text)

\* The rule check of request g said "match".
RuleHit(g) == creqs[g].resp = 403 /\ creqs[g].msg = "rule match"

\* C20: for a request whose text has been checked: a text that is not
\* empty and contains a configured literal rule in any letter case is a
\* match; an empty text is never a match; a text that no configured rule
\* matches is not a match.
C20_LiteralRuleMatch ==
    \A g \in GateReqs :
        LET text == creqs[g].text IN
        /\ (/\ text # <<>>
            /\ \E i \in 1..Len(rules) :
                  IsLiteralRule(rules[i]) /\ ContainsAnyCase(text, rules[i]))
           => RuleHit(g) /\ matchesRuleBased(text)
        /\ text = <<>> => ~RuleHit(g) /\ ~matchesRuleBased(text)
        /\ (\A i \in 1..Len(rules) : ~RuleMatches(i, text))
           => ~RuleHit(g) /\ ~matchesRuleBased(text)

\* A text in upper case was refused for a literal rule in lower case that
\* comes after a pattern that does not compile.
C20_Witness ==
    \E g \in GateReqs :
        /\ creqs[g].text = <<"x", "A", "B">>
        /\ rules = << <<"/", "(", "/">>, <<"a", "b">> >>
        /\ RuleHit(g)

\* A rule written between slashes whose pattern does not compile.
IsMalformedRule(r) == ~IsLiteralRule(r) /\ RegExpThrows(Slice1(r))

\* The configured rules with the malformed ones taken out, in order.
WellFormedRules == SelectSeq(rules, LAMBDA r : ~IsMalformedRule(r))

\* C21: whatever malformed patterns the rule list holds and wherever they
\* stand in it, the rule check of a request does not end in an error, and
\* it says "match" exactly when the scan of the list without its malformed
\* rules does: every rule after a malformed one is still evaluated.
C21_MalformedRuleSkipped ==
    \A g \in GateReqs :
        LET text == creqs[g].text
            expected == text # <<>> /\ ScanRules(WellFormedRules, text)
        IN /\ creqs[g].resp # 500
           /\ RuleHit(g) <=> expected
           /\ matchesRuleBased(text) <=> expected

\* A text was refused for a pattern that stands after a pattern that does
\* not compile.
C21_Witness ==
    \E g \in GateReqs :
        /\ rules = << <<"/", "(", "/">>, <<"/", "b", ".", "b", "/">> >>
        /\ creqs[g].text = <<"b", "x", "b">>
        /\ RuleHit(g)

\* ------------------------------------------------------------- confirm and the gate
\* What a pending document can say: a text that matches a rule now
\* configured, and one that matches none.
PendingContents == { <<"x", "A", "B">>, <<"b", "a">> }

\* Pending documents awaiting confirmation, of either content.
ConfirmStores ==
    { { [PendingDoc(i, [status |-> "pending", createdAt |-> Now])
           EXCEPT !.content = f[i]] : i \in PendingIds }
      : f \in [PendingIds -> PendingContents] }

\* Confirm requests only, with the scorer enabled.
InitConfirm ==
    /\ pending \in ConfirmStores
    /\ posts = {SeedPost}
    /\ reqs = [r \in ReqIds |-> IdleReq]
    /\ QuietGate
    /\ env = [USE_PERSPECTIVE_API |-> "true", PERSPECTIVE_API_KEY |-> "key"]

NextConfirm ==
    \/ \E r \in ReqIds, t \in PendingIds, u \in AuthorIds : ConfirmFindOne(r, t, u)
    \/ \E r \in ReqIds : ConfirmFindOneAndDelete(r)
    \/ \E r \in ReqIds : ConfirmSave(r)
    \/ \E r \in ReqIds : ConfirmRespond(r)

SpecConfirm == InitConfirm /\ [][NextConfirm]_vars

\* C22: a confirm goes from its read to its delete, its save and its
\* response and nowhere else: no scorer call is made and no request waits
\* for one; a confirm that read a pending record and has answered, answered
\* 200 whatever the rules say about the content; and the post of a confirm
\* that answered 200 has the user, community, content, fileUrl and fileType
\* of the pending record that confirm read.
C22_ConfirmVerbatimUngated ==
    /\ \A g \in GateReqIds : creqs[g].calls = 0 /\ creqs[g].pc = "idle"
    /\ \A r \in ConfirmReqs :
          /\ reqs[r].pc \in {"c_delete", "c_save", "c_respond", "done"}
          /\ (reqs[r].pc = "done" /\ reqs[r].found # NoDoc) => reqs[r].resp = 200
          /\ reqs[r].resp = 200
             => \E p \in posts :
                   /\ p._id = <<"post", r>>
                   /\ p.user = reqs[r].found.user
                   /\ p.community = reqs[r].found.community
                   /\ p.content = reqs[r].found.content
                   /\ p.fileUrl = reqs[r].found.fileUrl
                   /\ p.fileType = reqs[r].found.fileType

\* A confirm answered 200 for a pending record with an uploaded file whose
\* content matches a configured rule, with the scorer enabled.
C22_Witness ==
    \E r \in ConfirmReqs :
        /\ reqs[r].resp = 200
        /\ ScoringEnabled
        /\ \E p \in posts :
              /\ p._id = <<"post", r>>
              /\ matchesRuleBased(p.content)
              /\ p.fileUrl = "url1"

\* ------------------------------------------------------------- deleteComment permissions
\* deleteComment requests only, by every kind of actor, for stored comments
\* and for ids no comment has.
InitDelete ==
    /\ pending = {}
    /\ reqs = [r \in ReqIds |-> IdleReq]
    /\ QuietComments({ SeedComment(k, <<"b", "a">>) : k \in SeedCommentIds })

NextDelete ==
    \/ \E r \in ReqIds, id \in CommentIds, u \in StaffIds : DeleteCommentFind(r, id, u)
    \/ \E r \in ReqIds : DeleteCommentPull(r)
    \/ \E r \in ReqIds : DeleteCommentRemove(r)

SpecDelete == InitDelete /\ [][NextDelete]_vars

\* The actor may delete a comment written by author: the author, or a user
\* whose role is admin or moderator.
MayDelete(actor, author) ==
    \/ actor = author
    \/ /\ actor \in DOMAIN UserRoles
       /\ UserRoles[actor] \in {"admin", "moderator"}

\* C23: a deleteComment request for an id no stored comment has answers 404
\* at its first step and changes nothing; one for a stored comment by an
\* actor who is neither its author nor an admin or moderator answers 403 at
\* its first step and leaves the comment store and every comment set
\* unchanged; and every $pull and remove of a deleteComment is made for the
\* comment's author, an admin or a moderator.
C23_DeleteCommentPermission ==
    [][\A r \in ReqIds :
          /\ (reqs[r].pc = "idle" /\ reqs'[r].op = "deleteComment")
             => LET id == reqs'[r].commentId
                    actor == reqs'[r].userId
                    hit == { c \in comments : c._id = id }
                IN /\ hit = {}
                      => /\ reqs'[r].pc = "done" /\ reqs'[r].resp = 404
                         /\ UNCHANGED <<comments, posts>>
                   /\ (\E c \in hit : ~MayDelete(actor, c.user))
                      => /\ reqs'[r].pc = "done" /\ reqs'[r].resp = 403
                         /\ UNCHANGED <<comments, posts>>
          /\ (reqs[r].op = "deleteComment" /\ reqs[r].pc \in {"d_pull", "d_remove"})
             => MayDelete(reqs[r].userId, reqs[r].found.user)]_vars

\* A general user was refused the deletion of another user's comment, which
\* is still stored and referenced, and a request for an id no comment has
\* was answered 404.
C23_Witness ==
    \E r, q \in ReqIds :
        /\ reqs[r].op = "deleteComment" /\ reqs[r].resp = 403
        /\ reqs[r].userId = "u1"
        /\ Stored(reqs[r].commentId) /\ Referenced(reqs[r].commentId)
        /\ reqs[q].op = "deleteComment" /\ reqs[q].resp = 404

====
